---- MODULE Spec2Model ----
(***************************************************************************)
(* Verification model of the beat-book pipeline (NewsAppsUMD/beat_book_new) *)
(*                                                                         *)
(*   Spec        the resumable runner: main() of add_entities_clay.py and  *)
(*               add_entities_clay_v2.py, run any number of times over a   *)
(*               stable work list, with external termination at any point  *)
(*   SpecAdapter the oracle adapter extract_entities() as a function of    *)
(*               the oracle's behaviour                                    *)
(*   SpecBatch   the batch stage and consolidation of entity_extractor.py  *)
(*   SpecReduce  the hierarchical consolidation loop of                   *)
(*               beatbook_generator.generate_beatbook                      *)
(*   SpecReport  entity_extractor.generate_report: prominence threshold    *)
(*               and prominent lists                                       *)
(*   SpecChron   create_beatbook: sort, parse_date, build_chronology       *)
(*   SpecSample  filter, sampling and limit of add_entities_clay*.py       *)
(*                                                                         *)
(* Python's 0-based list index i is kept 1-based here: cursor i of the     *)
(* model is enumerate()'s i + 1, so "i < starting_count" reads             *)
(* "i <= starting_count".                                                  *)
(***************************************************************************)
EXTENDS Integers, Sequences, FiniteSets, TLC

VARIABLES
    \* ---- resumable runner (add_entities_clay*.py main) ----
    variant,          \* "v1" = add_entities_clay.py, "v2" = add_entities_clay_v2.py
    skip_summary,     \* args.skip_summary (v2 only; TRUE for v1, which has no summary)
    stories,          \* the work list after filtering/sampling: stories[i] = has content
    file,             \* the output file: [st |-> "absent"|"ok"|"partial", data |-> records]
    pc,               \* position of the process in main()
    enhanced_stories, \* in-memory output list
    starting_count,   \* len(enhanced_stories) as loaded
    i,                \* loop cursor (1-based)
    errors,           \* the run's aggregate error list (story numbers)
    runs,             \* number of runs started so far
    calls,            \* work-list indices for which this run invoked extract_entities
    visited,          \* work-list indices this run took past the resume check
    lastExit,         \* how the previous run ended: "none" | "done" | "killed" | "raised"
    fileAtStart,      \* the output file as the current run found it
    saved,            \* work-list indices whose record some run has persisted
    handled,          \* work-list indices some run has finished with
    oracle,           \* what the oracle did on the item in hand
    \* ---- oracle adapter (extract_entities) ----
    response,         \* the oracle behaviour handed to the adapter
    outcome,          \* what the adapter returned / raised
    apc,              \* "ready" | "returned"
    \* ---- batch stage (entity_extractor.py main) ----
    bstories,         \* number of stories loaded
    batch_size,       \* args.batch_size
    bi,               \* loop variable of range(0, len(stories), batch_size)
    batches,          \* the slices handed to extract_entities_from_batch, in order
    replies,          \* [num, reply]: the oracle calls made, with the batch number
    batch_results,    \* the list main() accumulates
    consolidated,     \* result of consolidate_entities
    ptext,            \* a response text handed to the parsing half on its own
    presult,          \* what the parsing half returned for ptext
    ppc,              \* "idle" | "start" | "parsed"
    bpc,              \* position in entity_extractor.main
    \* ---- hierarchical consolidation (beatbook_generator.generate_beatbook) ----
    max_summaries_per_level, \* the fan-in
    batch_summaries,  \* the leaf summaries handed in
    current_level,    \* summaries of the level being reduced
    next_level,       \* summaries produced so far for the next level
    group_start,      \* loop variable of range(0, len(current_level), fan-in)
    level,            \* level counter
    synth_log,        \* the synthesize_intermediate calls made: [level, group, outcome]
    rpc,              \* position in generate_beatbook
    \* ---- report (entity_extractor.generate_report) ----
    total_stories,    \* argument total_stories
    threshold_percent, \* argument threshold_percent
    rconsolidated,    \* argument consolidated
    prominence_threshold, \* the threshold computed
    prominent,        \* per class, the records listed as prominent
    rendered,         \* per class, the "other" buckets: [type, listed, note]
    gpc,              \* "ready" | "reported"
    \* ---- chronology (create_beatbook.build_chronology) ----
    cstories,         \* the stories handed in, as their "date" values
    cidx,             \* number of stories the loop has been through
    by_month,         \* the (year, month) buckets: [key, items]
    by_year,          \* the year buckets: [key, items]
    cpc,              \* "loop" | "built" | "raised"
    \* ---- sampling (add_entities_clay*.py main, before the loop) ----
    all_stories,      \* the input corpus, as story kinds
    sample_size,      \* requested sample size
    limit,            \* args.limit (0 = not given)
    rng,              \* state of the module-level random generator
    worklists,        \* the work list each run so far has selected
    spc               \* "start" | "selected" | "raised"

runnerVars == <<variant, skip_summary, stories, file, pc, enhanced_stories,
                starting_count, i, errors, runs, calls, visited, lastExit,
                fileAtStart, saved, handled, oracle>>
adapterVars == <<response, outcome, apc>>
parseVars == <<ptext, presult, ppc>>
batchVars == <<bstories, batch_size, bi, batches, replies, batch_results,
               consolidated, bpc, parseVars>>
reducerVars == <<max_summaries_per_level, batch_summaries, current_level,
                 next_level, group_start, level, synth_log, rpc>>
reportVars == <<total_stories, threshold_percent, rconsolidated,
                prominence_threshold, prominent, rendered, gpc>>
chronVars == <<cstories, cidx, by_month, by_year, cpc>>
sampleVars == <<all_stories, sample_size, limit, rng, worklists, spc>>
stageVars == <<reducerVars, reportVars, chronVars, sampleVars>>
vars == <<runnerVars, adapterVars, batchVars, stageVars>>

\* ------------------------------------------------------------------ bounds
MaxStories == 2
MaxRuns == 3
MaxLines == 3
MaxBatchStories == 4
MaxBatchSize == 3
MaxLeaves == 7
MaxFanIn == 5
MaxLevel == 4
MaxTotal == 50
MaxPercent == 60
MaxNegPercent == 2
MaxChron == 3
MaxCorpus == 4
MaxSample == 3
MaxLimit == 2
MaxSelections == 2

\* ------------------------------------------------------------- sequences
Range(s) == {s[k] : k \in DOMAIN s}
Front(s) == SubSeq(s, 1, Len(s) - 1)
SeqsUpTo(S, n) == UNION {[1..k -> S] : k \in 0..n}
IsPrefix(s, t) == Len(s) <= Len(t) /\ SubSeq(t, 1, Len(s)) = s

\* ------------------------------------------------- oracle adapter (4.1)
\* The oracle's stdout is a sequence of lines.  A line is one of:
\*   FENCE  a line opening or closing a code fence (three backticks, with
\*          or without a language tag)
\*   OBJ    a JSON object with the entity arrays, on one line
\*   OPEN   the opening lines of such an object spread over several lines
\*   CLOSE  its closing line
\*   ARR    a JSON array (well-formed JSON that is not an object)
\*   PROSE  anything else
\*   BLANK  a blank line
Lines == {"FENCE", "OBJ", "OPEN", "CLOSE", "ARR", "PROSE", "BLANK"}
Texts == SeqsUpTo(Lines, MaxLines)

\* What subprocess.run(..., timeout=...) can do.
Responses ==
    [kind : {"exit"}, returncode : {0, 1}, stdout : Texts]
    \cup [kind : {"timeout", "oserror"}, returncode : {0}, stdout : {<< >>}]

RECURSIVE LStrip(_, _)
LStrip(t, ws) == IF t # << >> /\ t[1] = ws THEN LStrip(Tail(t), ws) ELSE t
RECURSIVE RStrip(_, _)
RStrip(t, ws) == IF t # << >> /\ t[Len(t)] = ws THEN RStrip(Front(t), ws) ELSE t
\* str.strip() on a text: leading and trailing blank lines removed
Strip(t) == RStrip(LStrip(t, "BLANK"), "BLANK")

NonBlank(l) == l # "BLANK"
\* json.loads(text): [exc, val]; whitespace between tokens is insignificant
JsonLoads(t) ==
    LET u == SelectSeq(t, NonBlank) IN
    IF u = <<"OBJ">> \/ u = <<"OPEN", "CLOSE">> THEN [exc |-> "none", val |-> "dict"]
    ELSE IF u = <<"ARR">> THEN [exc |-> "none", val |-> "list"]
    ELSE [exc |-> "JSONDecodeError", val |-> "none"]

\* The fence removal: split(newline, 1)[1] raises IndexError when the text
\* has no line break; rsplit(newline, 1)[0] drops the last line when there
\* is one to drop.
Unfence(t) ==
    IF t # << >> /\ t[1] = "FENCE"
    THEN IF Len(t) = 1 THEN [exc |-> "IndexError", text |-> t]
         ELSE [exc |-> "none",
               text |-> IF Len(Tail(t)) = 1 THEN Tail(t) ELSE Front(Tail(t))]
    ELSE [exc |-> "none", text |-> t]

\* Values extract_entities can hand back.  error = "none": no 'error' key.
ErrorDict(msg) == [type |-> "dict", error |-> msg]
ParsedValue(v) == [type |-> v, error |-> "none"]

\* The body of the try block: the exception it raises, or the value returned.
TryBody(r) ==
    CASE r.kind = "timeout" -> [exc |-> "TimeoutExpired", ret |-> ErrorDict("none")]
      [] r.kind = "oserror" -> [exc |-> "OSError", ret |-> ErrorDict("none")]
      [] OTHER ->
           IF r.returncode = 0
           THEN LET f == Unfence(Strip(r.stdout)) IN
                IF f.exc # "none" THEN [exc |-> f.exc, ret |-> ErrorDict("none")]
                ELSE LET j == JsonLoads(f.text) IN
                     IF j.exc # "none" THEN [exc |-> j.exc, ret |-> ErrorDict("none")]
                     ELSE [exc |-> "none", ret |-> ParsedValue(j.val)]
           ELSE [exc |-> "none", ret |-> ErrorDict("LLM failed")]

\* A buggy variant: no catch-all handler after the two typed ones.
extract_entities_NoCatchAll(r) ==
    LET t == TryBody(r) IN
    CASE t.exc = "none" -> [raised |-> "none", ret |-> t.ret]
      [] t.exc = "TimeoutExpired" ->
           [raised |-> "none", ret |-> ErrorDict("LLM request timed out")]
      [] t.exc = "JSONDecodeError" ->
           [raised |-> "none", ret |-> ErrorDict("JSON parsing failed")]
      [] OTHER -> [raised |-> t.exc, ret |-> ErrorDict("none")]

\* extract_entities: the try block and its three handlers.
extract_entities(r) ==
    LET t == TryBody(r) IN
    CASE t.exc = "none" -> [raised |-> "none", ret |-> t.ret]
      [] t.exc = "TimeoutExpired" ->
           [raised |-> "none", ret |-> ErrorDict("LLM request timed out")]
      [] t.exc = "JSONDecodeError" ->
           [raised |-> "none", ret |-> ErrorDict("JSON parsing failed")]
      [] OTHER -> [raised |-> "none", ret |-> ErrorDict("Unexpected error")]

\* ------------------------------------------- resumable runner (4.6)
\* Oracle behaviours the runner is driven with: a clean object, prose, a JSON
\* array, a non-zero exit, a timeout.
RunnerResponses ==
    {[kind |-> "exit", returncode |-> 0, stdout |-> <<"OBJ">>],
     [kind |-> "exit", returncode |-> 0, stdout |-> <<"PROSE">>],
     [kind |-> "exit", returncode |-> 0, stdout |-> <<"ARR">>],
     [kind |-> "exit", returncode |-> 1, stdout |-> << >>],
     [kind |-> "timeout", returncode |-> 0, stdout |-> << >>]}

\* summarize_story_with_quotes returns a summary text or an error string
\* "[Summary Error ..."; "none": the summary step is not taken.
SummaryOutcomes == IF skip_summary THEN {"none"} ELSE {"text", "error"}

NoFile == [st |-> "absent", data |-> << >>]
Idle == [kind |-> "idle", returncode |-> 0, stdout |-> << >>]
NoOutcome == [raised |-> "none", ret |-> ErrorDict("none")]

\* The branch test of main(): v1 tests only 'error' not in entities, v2 also
\* isinstance(entities, dict).  For a list, v1's test is true as well.
TakesSuccessBranch(entities) ==
    IF variant = "v1" THEN entities.error = "none"
    ELSE entities.type = "dict" /\ entities.error = "none"

\* The success branch calls entities.get(...), which a list does not have.
RaisesInBuild(entities) ==
    TakesSuccessBranch(entities) /\ entities.type # "dict"

\* A buggy variant: the error branch forgets the marker.
enhanced_story_NoMarker(idx, entities, summary) ==
    [src |-> idx,
     people |-> IF TakesSuccessBranch(entities) THEN <<"P">> ELSE << >>,
     places |-> IF TakesSuccessBranch(entities) THEN <<"L">> ELSE << >>,
     organizations |-> IF TakesSuccessBranch(entities) THEN <<"O">> ELSE << >>,
     error |-> "none",
     content |-> IF summary = "text" THEN "summary" ELSE "original",
     summary_error |-> summary = "error"]

\* The record main() builds from story idx, the adapter's value and the summary.
enhanced_story(idx, entities, summary) ==
    [src |-> idx,
     people |-> IF TakesSuccessBranch(entities) THEN <<"P">> ELSE << >>,
     places |-> IF TakesSuccessBranch(entities) THEN <<"L">> ELSE << >>,
     organizations |-> IF TakesSuccessBranch(entities) THEN <<"O">> ELSE << >>,
     error |-> IF TakesSuccessBranch(entities) THEN "none"
               ELSE IF entities.type = "dict" THEN entities.error
               ELSE "Unexpected response format",
     content |-> IF summary = "text" THEN "summary" ELSE "original",
     summary_error |-> summary = "error"]

InitIdleAdapter == response = Idle /\ outcome = NoOutcome /\ apc = "idle"
InitIdleParse ==
    /\ ptext = << >> /\ ppc = "idle"
    /\ presult = [type |-> "dict", individuals |-> << >>, events |-> << >>,
                  places |-> << >>]
InitIdleBatchLoop ==
    /\ bstories = 0 /\ batch_size = 1 /\ bi = 0 /\ batches = << >>
    /\ replies = << >> /\ batch_results = << >>
    /\ consolidated = [individuals |-> << >>, events |-> << >>, places |-> << >>]
    /\ bpc = "idle"
InitIdleBatch == InitIdleBatchLoop /\ InitIdleParse
InitIdleReducer ==
    /\ max_summaries_per_level = 0 /\ batch_summaries = << >>
    /\ current_level = << >> /\ next_level = << >> /\ group_start = 0
    /\ level = 1 /\ synth_log = << >> /\ rpc = "idle"
InitIdleReport ==
    /\ total_stories = 0 /\ threshold_percent = 0
    /\ rconsolidated = [individuals |-> << >>, events |-> << >>, places |-> << >>]
    /\ prominence_threshold = 0
    /\ prominent = [individuals |-> << >>, events |-> << >>, places |-> << >>]
    /\ rendered = [individuals |-> << >>, events |-> << >>, places |-> << >>]
    /\ gpc = "idle"
InitIdleChron ==
    /\ cstories = << >> /\ cidx = 0 /\ by_month = << >> /\ by_year = << >>
    /\ cpc = "idle"
InitIdleSample ==
    /\ all_stories = << >> /\ sample_size = 0 /\ limit = 0 /\ rng = 0
    /\ worklists = << >> /\ spc = "idle"
InitIdleRunner ==
    /\ variant = "v1" /\ skip_summary = TRUE /\ stories = << >> /\ file = NoFile
    /\ pc = "idle" /\ enhanced_stories = << >> /\ starting_count = 0 /\ i = 1
    /\ errors = << >> /\ runs = 0 /\ calls = << >> /\ visited = << >>
    /\ lastExit = "none" /\ fileAtStart = NoFile /\ saved = {} /\ handled = {}
    /\ oracle = Idle

Init ==
    /\ variant \in {"v1", "v2"}
    /\ skip_summary \in BOOLEAN
    /\ variant = "v1" => skip_summary
    /\ stories \in SeqsUpTo(BOOLEAN, MaxStories)
    /\ file = NoFile
    /\ pc = "idle"
    /\ enhanced_stories = << >>
    /\ starting_count = 0
    /\ i = 1
    /\ errors = << >>
    /\ runs = 0
    /\ calls = << >>
    /\ visited = << >>
    /\ lastExit = "none"
    /\ fileAtStart = NoFile
    /\ saved = {}
    /\ handled = {}
    /\ oracle = Idle
    /\ InitIdleAdapter
    /\ InitIdleBatch
    /\ InitIdleReducer /\ InitIdleReport /\ InitIdleChron /\ InitIdleSample

ExitOf(p) == CASE p = "done" -> "done" [] p = "killed" -> "killed"
               [] p = "raised" -> "raised" [] OTHER -> "none"

\* A buggy variant: the previous results are not taken over.
LoadedOutput_Fresh(f) == << >>
\* json.load(f) of the output file: the list last dumped
LoadedOutput(f) == f.data

\* Process start up to the loop: load the output file if it exists.  A file
\* left half-written makes json.load raise, which nothing catches.
StartRun ==
    /\ pc \in {"idle", "done", "killed", "raised"}
    /\ runs < MaxRuns
    /\ runs' = runs + 1
    /\ lastExit' = ExitOf(pc)
    /\ fileAtStart' = file
    /\ calls' = << >>
    /\ visited' = << >>
    /\ errors' = << >>
    /\ i' = 1
    /\ \/ /\ file.st = "partial"
          /\ pc' = "raised"
          /\ enhanced_stories' = << >>
          /\ starting_count' = 0
       \/ /\ file.st # "partial"
          /\ pc' = "loop"
          /\ enhanced_stories' = LoadedOutput(file)
          /\ starting_count' = Len(LoadedOutput(file))
    /\ UNCHANGED <<variant, skip_summary, stories, file, saved, handled, oracle>>
    /\ UNCHANGED <<adapterVars, batchVars, stageVars>>

\* A buggy variant of the resume check: off by one.
AlreadyProcessed_OffByOne(idx) == idx < starting_count

\* "if i < starting_count: continue"
AlreadyProcessed(idx) == idx <= starting_count

\* One pass through the head of the loop body, up to the oracle call.
LoopStep ==
    /\ pc = "loop"
    /\ i <= Len(stories)
    /\ \/ /\ AlreadyProcessed(i)
          /\ i' = i + 1
          /\ UNCHANGED <<pc, calls, visited, handled>>
       \/ /\ ~AlreadyProcessed(i)
          /\ ~stories[i]
          /\ i' = i + 1
          /\ visited' = Append(visited, i)
          /\ handled' = handled \cup {i}
          /\ UNCHANGED <<pc, calls>>
       \/ /\ ~AlreadyProcessed(i)
          /\ stories[i]
          /\ pc' = "extract"
          /\ visited' = Append(visited, i)
          /\ calls' = Append(calls, i)
          /\ UNCHANGED <<i, handled>>
    /\ UNCHANGED <<variant, skip_summary, stories, file, enhanced_stories,
                   starting_count, errors, runs, lastExit, fileAtStart, saved,
                   oracle>>
    /\ UNCHANGED <<adapterVars, batchVars, stageVars>>

\* The oracle answers; main() builds the record and appends it in memory.
ExtractReturn ==
    /\ pc = "extract"
    /\ \E r \in RunnerResponses, s \in SummaryOutcomes :
         LET entities == extract_entities(r).ret IN
         /\ oracle' = r
         /\ IF RaisesInBuild(entities)
            THEN /\ pc' = "raised"
                 /\ enhanced_stories' = << >>
                 /\ errors' = << >>
            ELSE /\ pc' = "save"
                 /\ enhanced_stories' =
                        Append(enhanced_stories, enhanced_story(i, entities, s))
                 /\ errors' = IF TakesSuccessBranch(entities) THEN errors
                              ELSE Append(errors, i)
    /\ UNCHANGED <<variant, skip_summary, stories, file, starting_count, i, runs,
                   calls, visited, lastExit, fileAtStart, saved, handled>>
    /\ UNCHANGED <<adapterVars, batchVars, stageVars>>

\* open(output_filename, 'w') truncates the file.
SaveOpen ==
    /\ pc = "save"
    /\ file' = [st |-> "partial", data |-> << >>]
    /\ pc' = "dump"
    /\ UNCHANGED <<variant, skip_summary, stories, enhanced_stories,
                   starting_count, i, errors, runs, calls, visited, lastExit,
                   fileAtStart, saved, handled, oracle>>
    /\ UNCHANGED <<adapterVars, batchVars, stageVars>>

\* json.dump and close complete; the loop moves on.
SaveDump ==
    /\ pc = "dump"
    /\ file' = [st |-> "ok", data |-> enhanced_stories]
    /\ saved' = saved \cup {i}
    /\ handled' = handled \cup {i}
    /\ i' = i + 1
    /\ pc' = "loop"
    /\ oracle' = Idle
    /\ UNCHANGED <<variant, skip_summary, stories, enhanced_stories,
                   starting_count, errors, runs, calls, visited, lastExit,
                   fileAtStart>>
    /\ UNCHANGED <<adapterVars, batchVars, stageVars>>

\* The work list is exhausted: the summary is printed.
Finish ==
    /\ pc = "loop"
    /\ i > Len(stories)
    /\ pc' = "done"
    /\ UNCHANGED <<variant, skip_summary, stories, file, enhanced_stories,
                   starting_count, i, errors, runs, calls, visited, lastExit,
                   fileAtStart, saved, handled, oracle>>
    /\ UNCHANGED <<adapterVars, batchVars, stageVars>>

\* The process is terminated from outside; what it held in memory is gone.
Kill ==
    /\ pc \in {"loop", "extract", "save", "dump"}
    /\ pc' = "killed"
    /\ enhanced_stories' = << >>
    /\ errors' = << >>
    /\ calls' = << >>
    /\ visited' = << >>
    /\ starting_count' = 0
    /\ i' = 1
    /\ oracle' = Idle
    /\ UNCHANGED <<variant, skip_summary, stories, file, runs, lastExit,
                   fileAtStart, saved, handled>>
    /\ UNCHANGED <<adapterVars, batchVars, stageVars>>

Next == StartRun \/ LoopStep \/ ExtractReturn \/ SaveOpen \/ SaveDump
        \/ Finish \/ Kill

Spec == Init /\ [][Next]_vars

\* ------------------------------------------------ runner: properties
HasContent(idx) == stories[idx]
Srcs(recs) == [k \in 1..Len(recs) |-> recs[k].src]
\* the indices a+1 .. b in increasing order
Interval(a, b) == [k \in 1..(IF b > a THEN b - a ELSE 0) |-> a + k]
Running == pc \in {"loop", "extract", "save", "dump"}
RecordsOf(recs, idx) == {k \in 1..Len(recs) : recs[k].src = idx}

\* C1: after a run that went to completion, a second run on the same input
\* and the output file the first run left makes no oracle call and leaves the
\* file as it found it.
C1_ResumptionIdempotence ==
    lastExit = "done" => (calls = << >> /\ file = fileAtStart)

\* C2: the persisted output always corresponds to a prefix of the work list:
\* its records are those of the content-bearing items of some prefix, in
\* order; no run invokes extraction for an item whose record is already
\* persisted; no run skips, as already processed, an item no run has
\* finished with.
C2_PersistedIsPrefix ==
    /\ file.st = "ok" =>
         \E k \in 0..Len(stories) :
            Srcs(file.data) = SelectSeq(Interval(0, k), HasContent)
    /\ pc = "extract" => i \notin saved
    /\ (pc = "loop" /\ i <= Len(stories) /\ AlreadyProcessed(i)) => i \in handled

\* C3: a run that found a persisted output of length k = starting_count takes
\* past the resume check exactly the items k+1 .. len(stories) (1-based),
\* each once and in increasing order, none at or below k; among them extraction
\* is invoked for exactly those that have content, in the same order.
C3_PrefixInvariant ==
    (Running \/ pc = "done") =>
        /\ starting_count <= Len(stories)
        /\ visited = Interval(starting_count,
                              IF pc \in {"loop", "done"} THEN i - 1 ELSE i)
        /\ calls = SelectSeq(visited, HasContent)
        /\ pc = "done" => visited = Interval(starting_count, Len(stories))

\* C3 witness: a resumed run with k = 1 of 2 items has completed, having
\* processed exactly the second item.
C3_Witness ==
    /\ pc = "done" /\ Len(stories) = 2 /\ starting_count = 1
    /\ visited = <<2>> /\ calls = <<2>>

\* C4: after an external termination, the next run does not call the oracle
\* for an item whose persist had completed, and once it is done every item
\* with content has exactly one record in the persisted output.
C4_CrashSafety ==
    lastExit = "killed" =>
        /\ pc = "extract" => i \notin saved
        /\ pc = "done" =>
             \A idx \in 1..Len(stories) :
                HasContent(idx) => Cardinality(RecordsOf(file.data, idx)) = 1

\* C5: every persisted record derives from one work-list document, no
\* document has more than one record, and the records are in work-list order.
C5_OneRecordPerDocument ==
    file.st = "ok" =>
        /\ \A k \in 1..Len(file.data) : file.data[k].src \in 1..Len(stories)
        /\ \A idx \in 1..Len(stories) :
              Cardinality(RecordsOf(file.data, idx)) <= 1
        /\ \A k \in 1..(Len(file.data) - 1) :
              file.data[k].src < file.data[k + 1].src

\* Extraction failed for the item in hand: timeout, non-zero exit, or output
\* that is not JSON.
ExtractionFailed(r) ==
    \/ r.kind = "timeout"
    \/ r.kind = "exit" /\ r.returncode # 0
    \/ r.kind = "exit" /\ r.returncode = 0 /\ r.stdout = <<"PROSE">>

\* C6: when extraction fails for an item with content the run goes on: one
\* record for that item, with an error marker and empty people, places and
\* organizations, is appended; it is persisted as it stands; the cursor
\* moves to the next item.
C6_FailureDoesNotStopRun ==
    [][ /\ (pc = "extract" /\ pc' # "killed" /\ ExtractionFailed(oracle')) =>
            /\ pc' = "save"
            /\ Len(enhanced_stories') = Len(enhanced_stories) + 1
            /\ SubSeq(enhanced_stories', 1, Len(enhanced_stories)) = enhanced_stories
            /\ LET rec == enhanced_stories'[Len(enhanced_stories')] IN
                 /\ rec.src = i
                 /\ rec.error # "none"
                 /\ rec.people = << >> /\ rec.places = << >>
                 /\ rec.organizations = << >>
        /\ (pc = "save" /\ pc' # "killed") =>
            (pc' = "dump" /\ enhanced_stories' = enhanced_stories)
        /\ (pc = "dump" /\ pc' # "killed") =>
            /\ file' = [st |-> "ok", data |-> enhanced_stories]
            /\ pc' = "loop"
            /\ i' = i + 1
      ]_vars

\* C6 witness: the first item's extraction failed, its error record is
\* persisted, and the oracle has been called for the second item.
C6_Witness ==
    /\ pc = "extract" /\ i = 2 /\ calls = <<1, 2>>
    /\ file.st = "ok" /\ Len(file.data) = 1
    /\ file.data[1].src = 1 /\ file.data[1].error # "none"
    /\ file.data[1].people = << >>

\* ---------------------------------------- oracle adapter: properties
InitAdapter ==
    /\ response \in Responses
    /\ outcome = NoOutcome
    /\ apc = "ready"
    /\ variant = "v1" /\ skip_summary = TRUE /\ stories = << >> /\ file = NoFile
    /\ pc = "idle" /\ enhanced_stories = << >> /\ starting_count = 0 /\ i = 1
    /\ errors = << >> /\ runs = 0 /\ calls = << >> /\ visited = << >>
    /\ lastExit = "none" /\ fileAtStart = NoFile /\ saved = {} /\ handled = {}
    /\ oracle = Idle
    /\ InitIdleBatch
    /\ InitIdleReducer /\ InitIdleReport /\ InitIdleChron /\ InitIdleSample

\* The caller invokes extract_entities on the oracle's behaviour.
Invoke ==
    /\ apc = "ready"
    /\ outcome' = extract_entities(response)
    /\ apc' = "returned"
    /\ UNCHANGED <<response, runnerVars, batchVars, stageVars>>

NextAdapter == Invoke

SpecAdapter == InitAdapter /\ [][NextAdapter]_vars

\* The failure kind of an oracle behaviour, read off the behaviour itself:
\* the error text the caller should see, "none" for a success.
FenceWithoutLineBreak(r) ==
    r.kind = "exit" /\ r.returncode = 0 /\ Strip(r.stdout) = <<"FENCE">>
ExpectedError(r) ==
    CASE r.kind = "timeout" -> "LLM request timed out"
      [] r.kind = "oserror" -> "Unexpected error"
      [] r.kind = "exit" /\ r.returncode # 0 -> "LLM failed"
      [] FenceWithoutLineBreak(r) -> "Unexpected error"
      [] OTHER ->
           LET t == Strip(r.stdout)
               inner == IF t # << >> /\ t[1] = "FENCE"
                        THEN (IF Len(t) = 2 THEN <<t[2]>>
                              ELSE SubSeq(t, 2, Len(t) - 1))
                        ELSE t
               u == SelectSeq(inner, NonBlank)
           IN IF u \in {<<"OBJ">>, <<"OPEN", "CLOSE">>, <<"ARR">>}
              THEN "none" ELSE "JSON parsing failed"

\* C7: extract_entities never raises to its caller: whatever the oracle does
\* it returns a value, and every failure (non-zero exit, timeout, any other
\* exception, a fence with no line break, unparseable text) comes back as a
\* record whose error field names the failure kind.
C7_AdapterNeverRaises ==
    apc = "returned" =>
        /\ outcome.raised = "none"
        /\ outcome.ret.error = ExpectedError(response)
        /\ ExpectedError(response) # "none" => outcome.ret.type = "dict"

\* C7 witness: the oracle answered with a lone fence line, and the adapter
\* returned an error record.
C7_Witness ==
    /\ apc = "returned"
    /\ FenceWithoutLineBreak(response)
    /\ outcome.raised = "none" /\ outcome.ret.error = "Unexpected error"

\* --------------------------------- batch stage and consolidation (4.2-4.4)
\* An entity name is a sequence of characters; " " is whitespace.
\* str.strip() on a name:
StripName(name) == RStrip(LStrip(name, " "), " ")

\* One entry of a class list.  key is the entry's "name" / "event" /
\* "location", qual its "title" / "type", story_titles its list of titles.
Entry(key, qual, titles) == [key |-> key, qual |-> qual, story_titles |-> titles]

\* The objects the oracle's answers can carry.
Payload(tok) ==
    CASE tok = "OBJ1" ->
           [type |-> "dict",
            individuals |-> <<Entry(<<"a">>, "chief", <<"s1">>)>>,
            events |-> <<Entry(<<"e">>, "fire", <<"s1">>)>>,
            places |-> <<Entry(<<"p">>, "town", <<"s1", "s2">>)>>]
      [] tok = "OBJ2" ->
           [type |-> "dict",
            individuals |-> <<Entry(<<" ", "a">>, "officer", <<"s2">>),
                              Entry(<<"b">>, "judge", <<"s2", "s3">>)>>,
            events |-> << >>,
            places |-> <<Entry(<<"q">>, "road", <<"s3">>),
                         Entry(<<"p", " ">>, "city", <<"s3">>)>>]
      [] OTHER ->
           [type |-> "dict",
            individuals |-> <<Entry(<<"b">>, "judge", <<"s3">>),
                              Entry(<<"a">>, "chief", <<"s1">>),
                              Entry(<<" ">>, "", <<"s4">>)>>,
            events |-> <<Entry(<<"f">>, "meeting", <<"s4">>),
                         Entry(<<"e">>, "fire", <<"s1", "s4">>)>>,
            places |-> <<Entry(<< >>, "road", <<"s4">>)>>]

ObjTokens == {"OBJ1", "OBJ2", "OBJ3"}
\* A response text is a sequence of pieces: a complete JSON object (OBJn), a
\* JSON array without braces (ARR), a code-fence mark (FENCE), a stray brace
\* (LB, RB), or prose with neither braces nor backticks (PROSE).
OpensBrace(tok) == tok \in ObjTokens \cup {"LB"}
ClosesBrace(tok) == tok \in ObjTokens \cup {"RB"}

EmptyRecord ==
    [type |-> "dict", individuals |-> << >>, events |-> << >>, places |-> << >>]
ListValue ==
    [type |-> "list", individuals |-> << >>, events |-> << >>, places |-> << >>]

\* json.loads on a piece sequence: [ok, val]
LoadsPieces(t) ==
    IF Len(t) = 1 /\ t[1] \in ObjTokens THEN [ok |-> TRUE, val |-> Payload(t[1])]
    ELSE IF t = <<"ARR">> THEN [ok |-> TRUE, val |-> ListValue]
    ELSE [ok |-> FALSE, val |-> EmptyRecord]

\* re.search of the fenced pattern: leftmost fence followed by an opening
\* brace, then the shortest stretch ending in a closing brace that a fence
\* follows.  [found, group]
FencedMatch(t) ==
    LET starts == {a \in 1..Len(t) :
                     /\ t[a] = "FENCE" /\ a + 1 <= Len(t) /\ OpensBrace(t[a + 1])
                     /\ \E z \in (a + 1)..(Len(t) - 1) :
                           ClosesBrace(t[z]) /\ t[z + 1] = "FENCE"}
    IN IF starts = {} THEN [found |-> FALSE, group |-> << >>]
       ELSE LET a == CHOOSE x \in starts : \A y \in starts : x <= y
                ends == {z \in (a + 1)..(Len(t) - 1) :
                            ClosesBrace(t[z]) /\ t[z + 1] = "FENCE"}
                z == CHOOSE x \in ends : \A y \in ends : x <= y
            IN [found |-> TRUE, group |-> SubSeq(t, a + 1, z)]

\* re.search of the greedy brace pattern: first opening brace to last closing
\* brace.  [found, group]
BraceMatch(t) ==
    LET opens == {a \in 1..Len(t) : OpensBrace(t[a])}
    IN IF opens = {} THEN [found |-> FALSE, group |-> << >>]
       ELSE LET a == CHOOSE x \in opens : \A y \in opens : x <= y
                closes == {z \in a..Len(t) : ClosesBrace(t[z])}
            IN IF closes = {}
               THEN [found |-> FALSE, group |-> << >>]
               ELSE LET z == CHOOSE x \in closes : \A y \in closes : x >= y
                    IN [found |-> TRUE, group |-> SubSeq(t, a, z)]

\* The parsing half of extract_entities_from_batch: three attempts, then the
\* empty record.
ParseResponse(t) ==
    LET whole == LoadsPieces(t)
        fm == FencedMatch(t)
        fenced == LoadsPieces(fm.group)
        bm == BraceMatch(t)
        braced == LoadsPieces(bm.group)
    IN IF whole.ok THEN whole.val
       ELSE IF fm.found /\ fenced.ok THEN fenced.val
       ELSE IF bm.found /\ braced.ok THEN braced.val
       ELSE EmptyRecord

\* What model.prompt(...).text() can do on a batch: raise, never return (the
\* call is given no timeout), or answer a text.
BatchReplies ==
    {[kind |-> "raise", text |-> << >>],
     [kind |-> "never", text |-> << >>],
     [kind |-> "text", text |-> <<"OBJ1">>],
     [kind |-> "text", text |-> <<"FENCE", "OBJ2", "FENCE">>],
     [kind |-> "text", text |-> <<"PROSE", "OBJ3", "PROSE">>],
     [kind |-> "text", text |-> <<"PROSE">>],
     [kind |-> "text", text |-> <<"ARR">>]}

\* ---- consolidate_entities
\* The defaultdict of one class, as the list of its items in insertion order:
\* [key, quals, stories].
IndexOfKey(d, key) ==
    LET hits == {k \in 1..Len(d) : d[k].key = key}
    IN IF hits = {} THEN 0 ELSE CHOOSE k \in hits : TRUE

\* A buggy variant: the stories of a key are assigned, not updated.
MergeEntry_Assigns(d, e) ==
    LET name == StripName(e.key)
        at == IndexOfKey(d, name)
    IN IF name = << >> THEN d
       ELSE IF at = 0
            THEN Append(d, [key |-> name, quals |-> {e.qual},
                            stories |-> Range(e.story_titles)])
            ELSE [d EXCEPT ![at] =
                    [key |-> name, quals |-> @.quals \cup {e.qual},
                     stories |-> Range(e.story_titles)]]

\* One pass of a class loop: name = ....strip(); if name: add the title (type)
\* and update the stories.
MergeEntry(d, e) ==
    LET name == StripName(e.key)
        at == IndexOfKey(d, name)
    IN IF name = << >> THEN d
       ELSE IF at = 0
            THEN Append(d, [key |-> name, quals |-> {e.qual},
                            stories |-> Range(e.story_titles)])
            ELSE [d EXCEPT ![at] =
                    [key |-> name, quals |-> @.quals \cup {e.qual},
                     stories |-> @.stories \cup Range(e.story_titles)]]

RECURSIVE MergeEntries(_, _)
MergeEntries(d, es) ==
    IF es = << >> THEN d ELSE MergeEntries(MergeEntry(d, Head(es)), Tail(es))

ClassList(batch, class) ==
    CASE class = "individuals" -> batch.individuals
      [] class = "events" -> batch.events
      [] OTHER -> batch.places

RECURSIVE MergeBatches(_, _, _)
MergeBatches(d, bs, class) ==
    IF bs = << >> THEN d
    ELSE MergeBatches(MergeEntries(d, ClassList(Head(bs), class)), Tail(bs), class)

\* list.sort(key=story_count, reverse=True): stable, descending
\* A buggy variant: a record goes in front of the records of equal count.
RECURSIVE InsertDesc_TiesFirst(_, _)
InsertDesc_TiesFirst(sorted, x) ==
    IF sorted = << >> THEN <<x>>
    ELSE IF Head(sorted).story_count > x.story_count
         THEN <<Head(sorted)>> \o InsertDesc_TiesFirst(Tail(sorted), x)
         ELSE <<x>> \o sorted
RECURSIVE InsertDesc(_, _)
InsertDesc(sorted, x) ==
    IF sorted = << >> THEN <<x>>
    ELSE IF Head(sorted).story_count >= x.story_count
         THEN <<Head(sorted)>> \o InsertDesc(Tail(sorted), x)
         ELSE <<x>> \o sorted
RECURSIVE SortDesc(_)
SortDesc(l) ==
    IF l = << >> THEN << >> ELSE InsertDesc(SortDesc(Front(l)), l[Len(l)])

ConsolidateClass(bs, class) ==
    LET d == MergeBatches(<< >>, bs, class)
    IN SortDesc([k \in 1..Len(d) |->
                   [key |-> d[k].key, quals |-> d[k].quals,
                    story_count |-> Cardinality(d[k].stories),
                    stories |-> d[k].stories]])

consolidate_entities(bs) ==
    [individuals |-> ConsolidateClass(bs, "individuals"),
     events |-> ConsolidateClass(bs, "events"),
     places |-> ConsolidateClass(bs, "places")]

NotConsolidated == [individuals |-> << >>, events |-> << >>, places |-> << >>]

\* ---- entity_extractor.main, lines 322-340
\* stories[i:i+batch_size], as the 1-based positions of the stories taken
BatchSlice_DropsLast(lo, size, n) ==
    [k \in 1..((IF lo + size - 1 <= n THEN lo + size - 1 ELSE n) - lo) |-> lo + k]

BatchSlice(lo, size, n) ==
    [k \in 1..((IF lo + size <= n THEN lo + size ELSE n) - lo) |-> lo + k]

InitBatch ==
    /\ bstories \in 0..MaxBatchStories
    /\ batch_size \in 1..MaxBatchSize
    /\ bi = 0
    /\ batches = << >>
    /\ replies = << >>
    /\ batch_results = << >>
    /\ consolidated = NotConsolidated
    /\ bpc = "loop"
    /\ InitIdleParse
    /\ variant = "v1" /\ skip_summary = TRUE /\ stories = << >> /\ file = NoFile
    /\ pc = "idle" /\ enhanced_stories = << >> /\ starting_count = 0 /\ i = 1
    /\ errors = << >> /\ runs = 0 /\ calls = << >> /\ visited = << >>
    /\ lastExit = "none" /\ fileAtStart = NoFile /\ saved = {} /\ handled = {}
    /\ oracle = Idle
    /\ InitIdleAdapter
    /\ InitIdleReducer /\ InitIdleReport /\ InitIdleChron /\ InitIdleSample

\* One iteration of the batch loop: slice, prompt the model, parse, append.
\* model.prompt / response.text() are called outside any try block.
BatchStep ==
    /\ bpc = "loop"
    /\ bi < bstories
    /\ batches' = Append(batches, BatchSlice(bi, batch_size, bstories))
    /\ \E reply \in BatchReplies :
         /\ replies' = Append(replies, [num |-> (bi \div batch_size) + 1,
                                        reply |-> reply])
         /\ IF reply.kind = "raise"
            THEN /\ bpc' = "raised_in_batch"
                 /\ UNCHANGED <<batch_results, bi>>
            ELSE IF reply.kind = "never"
            THEN /\ bpc' = "waiting"
                 /\ UNCHANGED <<batch_results, bi>>
            ELSE /\ batch_results' = Append(batch_results, ParseResponse(reply.text))
                 /\ bi' = bi + batch_size
                 /\ UNCHANGED bpc
    /\ UNCHANGED <<bstories, batch_size, consolidated, parseVars>>
    /\ UNCHANGED <<runnerVars, adapterVars, stageVars>>

\* After the loop: consolidate_entities(batch_results).  batch.get(...) raises
\* AttributeError on a batch result that is not a dict.
Consolidate ==
    /\ bpc = "loop"
    /\ bi >= bstories
    /\ IF \E k \in 1..Len(batch_results) : batch_results[k].type # "dict"
       THEN /\ bpc' = "raised_in_consolidate"
            /\ UNCHANGED consolidated
       ELSE /\ bpc' = "consolidated"
            /\ consolidated' = consolidate_entities(batch_results)
    /\ UNCHANGED <<bstories, batch_size, bi, batches, replies, batch_results,
                   parseVars>>
    /\ UNCHANGED <<runnerVars, adapterVars, stageVars>>

NextBatch == BatchStep \/ Consolidate

SpecBatch == InitBatch /\ [][NextBatch]_vars

\* ------------------------------------------- batch stage: properties
FailedReply(r) == r.kind = "raise" \/ (r.kind = "text" /\ r.text = <<"PROSE">>)
\* the object an answer of BatchReplies carries, if any
CarriedObject(r) ==
    IF \E k \in 1..Len(r.text) : r.text[k] \in ObjTokens
    THEN Payload(r.text[CHOOSE k \in 1..Len(r.text) : r.text[k] \in ObjTokens])
    ELSE IF r.text = <<"ARR">> THEN ListValue ELSE EmptyRecord

\* C8: a failure of the oracle call or of parsing on one batch yields the
\* empty record for that batch, the stage goes on, and the records of the
\* other batches reach consolidate_entities.
C8_BatchFailureTolerated ==
    /\ bpc # "raised_in_batch"
    /\ \A k \in 1..Len(replies) :
          FailedReply(replies[k].reply) =>
              (Len(batch_results) >= k /\ batch_results[k] = EmptyRecord)
    /\ bpc = "consolidated" =>
          /\ Len(batch_results) = Len(replies)
          /\ \A k \in 1..Len(replies) :
                ~FailedReply(replies[k].reply) =>
                    batch_results[k] = CarriedObject(replies[k].reply)

\* The parsing half of C8 on its own: an unparseable answer gives the empty
\* record and the loop goes on.
C8_ParseFailureTolerated ==
    \A k \in 1..Len(replies) :
        replies[k].reply = [kind |-> "text", text |-> <<"PROSE">>] =>
            (Len(batch_results) >= k /\ batch_results[k] = EmptyRecord)

RECURSIVE Flatten(_)
Flatten(ss) == IF ss = << >> THEN << >> ELSE Head(ss) \o Flatten(Tail(ss))
\* the least m with m * b >= n
Ceil(n, b) == CHOOSE m \in 0..n : m * b >= n /\ (m = 0 \/ (m - 1) * b < n)
StageComplete == bpc \in {"consolidated", "raised_in_consolidate"}

\* C9: the batches are contiguous slices whose concatenation is the input in
\* order; every batch holds batch_size stories except possibly the last,
\* which holds between 1 and batch_size; once the loop is through there are
\* ceil(n / batch_size) of them; the oracle is invoked once per batch, in
\* batch order.
C9_BatchPartition ==
    /\ \E m \in 0..bstories : Flatten(batches) = Interval(0, m)
    /\ \A k \in 1..Len(batches) :
          /\ Len(batches[k]) >= 1 /\ Len(batches[k]) <= batch_size
          /\ k < Len(batches) => Len(batches[k]) = batch_size
    /\ Len(replies) = Len(batches)
    /\ \A k \in 1..Len(replies) : replies[k].num = k
    /\ StageComplete =>
          /\ Len(batches) = Ceil(bstories, batch_size)
          /\ Flatten(batches) = Interval(0, bstories)

\* C9 witness: 3 stories in batches of 2 gave the batches (1,2) and (3),
\* with one oracle call each.
C9_Witness ==
    /\ bpc = "consolidated" /\ bstories = 3 /\ batch_size = 2
    /\ batches = << <<1, 2>>, <<3>> >> /\ Len(replies) = 2

Perms(n) == {p \in [1..n -> 1..n] : \A a, b \in 1..n : a # b => p[a] # p[b]}
Permuted(s, p) == [k \in 1..Len(s) |-> s[p[k]]]
\* per class, the (identity key, story_count, source stories) of every record
FrequenciesOf(l) == {<<l[k].key, l[k].story_count, l[k].stories>> : k \in 1..Len(l)}
Frequencies(c) ==
    [individuals |-> FrequenciesOf(c.individuals),
     events |-> FrequenciesOf(c.events),
     places |-> FrequenciesOf(c.places)]

\* C10: consolidate_entities applied to any permutation of the batch records
\* gives, per class and identity key, the same story_count and the same set
\* of source stories.
C10_OrderIndependence ==
    bpc = "consolidated" =>
        \A p \in Perms(Len(batch_results)) :
            Frequencies(consolidate_entities(Permuted(batch_results, p)))
                = Frequencies(consolidated)

\* C10 witness: two different batch records mention the same person (one with
\* a leading blank in the name); the person is consolidated with 2 stories.
C10_Witness ==
    /\ bpc = "consolidated"
    /\ Len(batch_results) >= 2
    /\ batch_results[1] = Payload("OBJ2") /\ batch_results[2] = Payload("OBJ1")
    /\ \E k \in 1..Len(consolidated.individuals) :
          /\ consolidated.individuals[k].key = <<"a">>
          /\ consolidated.individuals[k].stories = {"s1", "s2"}

Classes == {"individuals", "events", "places"}
Prefix(s, m) == SubSeq(s, 1, m)
\* story_count of an identity key in a consolidated list, 0 when absent
FreqIn(l, key) ==
    IF \E k \in 1..Len(l) : l[k].key = key
    THEN l[CHOOSE k \in 1..Len(l) : l[k].key = key].story_count
    ELSE 0

\* The first half of C11 on its own: the story_count of a key over the first
\* m batch records is at most its story_count over the first m + 1.
C11_FrequencyMonotone ==
    bpc = "consolidated" =>
        \A m \in 0..(Len(batch_results) - 1) : \A class \in Classes :
            LET before == consolidate_entities(Prefix(batch_results, m))[class]
                after == consolidate_entities(Prefix(batch_results, m + 1))[class]
            IN \A k \in 1..Len(before) :
                  before[k].story_count <= FreqIn(after, before[k].key)

\* C11: for every identity key the story_count over the first m batch
\* records is at most the story_count over the first m + 1, and every
\* story_count is at most the number of documents of the corpus.
C11_FrequencyMonotoneBounded ==
    /\ C11_FrequencyMonotone
    /\ bpc = "consolidated" =>
          \A class \in Classes : \A k \in 1..Len(consolidated[class]) :
              consolidated[class][k].story_count <= bstories

\* The entries of a class in the order consolidate_entities scans them.
ScanOrder(bs, class) == Flatten([k \in 1..Len(bs) |-> ClassList(bs[k], class)])
\* position of the first entry whose stripped name is the key
FirstSeen(bs, class, key) ==
    LET scan == ScanOrder(bs, class)
        at == {k \in 1..Len(scan) : StripName(scan[k].key) = key}
    IN CHOOSE k \in at : \A j \in at : k <= j

\* C12: each class list is in non-increasing story_count order, and records
\* of equal story_count are in the order their keys were first seen in the
\* scan of the batch records.
C12_SortedStable ==
    bpc = "consolidated" =>
        \A class \in Classes :
            LET l == consolidated[class]
            IN \A a, b \in 1..Len(l) :
                  a < b =>
                     \/ l[a].story_count > l[b].story_count
                     \/ /\ l[a].story_count = l[b].story_count
                        /\ FirstSeen(batch_results, class, l[a].key)
                              < FirstSeen(batch_results, class, l[b].key)

KeysOf(l) == [k \in 1..Len(l) |-> l[k].key]

\* C12 witness: one batch record names event f (1 story) before event e
\* (2 stories) and person b before person a (1 story each); the events come
\* out as e, f and the persons, a tie, as b, a.
C12_Witness ==
    /\ bpc = "consolidated"
    /\ batch_results = <<Payload("OBJ3")>>
    /\ KeysOf(consolidated.events) = << <<"e">>, <<"f">> >>
    /\ KeysOf(consolidated.individuals) = << <<"b">>, <<"a">> >>

\* C13: consolidate_entities applied to any permutation of the batch records
\* returns, per class, the identity keys in the same order.
C13_OrderFromMultiset ==
    bpc = "consolidated" =>
        \A p \in Perms(Len(batch_results)) : \A class \in Classes :
            KeysOf(consolidate_entities(Permuted(batch_results, p))[class])
                = KeysOf(consolidated[class])

\* ------------------ hierarchical consolidation (beatbook_generator.py 172-195)
\* A summary is the list of leaf summaries it covers and the level of the
\* synthesize_intermediate call that wrote it (0 for a leaf).
Leaf(k) == [covers |-> <<k>>, level |-> 0]
\* model.prompt(...).text() inside synthesize_intermediate: a text or an
\* exception; the function has no try block.
SynthOutcomes == {"text", "raise"}
synthesize_intermediate(summaries, lvl) ==
    [covers |-> Flatten([k \in 1..Len(summaries) |-> summaries[k].covers]),
     level |-> lvl]

\* A buggy variant: one summary too many is let through.
MoreLevels_OffByOne(cur, f) == Len(cur) > f + 1
\* while len(current_level) > max_summaries_per_level
MoreLevels(cur, f) == Len(cur) > f

\* A buggy variant: a group starts one element early.
GroupSlice_Overlap(cur, start, f) ==
    SubSeq(cur, IF start = 0 THEN 1 ELSE start,
           IF start + f <= Len(cur) THEN start + f ELSE Len(cur))
\* current_level[i:i+max_summaries_per_level], start 0-based
GroupSlice(cur, start, f) ==
    SubSeq(cur, start + 1, IF start + f <= Len(cur) THEN start + f ELSE Len(cur))

InitReduce ==
    /\ max_summaries_per_level \in 0..MaxFanIn
    /\ \E n \in 0..MaxLeaves : batch_summaries = [k \in 1..n |-> Leaf(k)]
    /\ current_level = << >>
    /\ next_level = << >>
    /\ group_start = 0
    /\ level = 1
    /\ synth_log = << >>
    /\ rpc = "start"
    /\ InitIdleRunner /\ InitIdleAdapter /\ InitIdleBatch
    /\ InitIdleReport /\ InitIdleChron /\ InitIdleSample

\* if len(batch_summaries) <= max_summaries_per_level: join them; else start
\* the hierarchical consolidation.
EnterReducer ==
    /\ rpc = "start"
    /\ current_level' = batch_summaries
    /\ rpc' = IF Len(batch_summaries) <= max_summaries_per_level
              THEN "final" ELSE "while"
    /\ UNCHANGED <<max_summaries_per_level, batch_summaries, next_level,
                   group_start, level, synth_log>>
    /\ UNCHANGED <<runnerVars, adapterVars, batchVars, reportVars, chronVars,
                   sampleVars>>

\* The while test, and on entry the for statement: range() with step 0
\* raises ValueError.
WhileTest ==
    /\ rpc = "while"
    /\ IF MoreLevels(current_level, max_summaries_per_level)
       THEN /\ next_level' = << >>
            /\ group_start' = 0
            /\ rpc' = IF max_summaries_per_level = 0 THEN "raised" ELSE "for"
       ELSE /\ rpc' = "final"
            /\ UNCHANGED <<next_level, group_start>>
    /\ UNCHANGED <<max_summaries_per_level, batch_summaries, current_level,
                   level, synth_log>>
    /\ UNCHANGED <<runnerVars, adapterVars, batchVars, reportVars, chronVars,
                   sampleVars>>

\* One pass of the for body: slice a group, synthesize it, append.  An
\* exception of the model call leaves generate_beatbook.
ForStep ==
    /\ rpc = "for"
    /\ group_start < Len(current_level)
    /\ LET group == GroupSlice(current_level, group_start, max_summaries_per_level)
       IN \E out \in SynthOutcomes :
            /\ synth_log' = Append(synth_log, [level |-> level, group |-> group,
                                               outcome |-> out])
            /\ IF out = "raise"
               THEN /\ rpc' = "raised"
                    /\ UNCHANGED <<next_level, group_start>>
               ELSE /\ next_level' = Append(next_level,
                                            synthesize_intermediate(group, level))
                    /\ group_start' = group_start + max_summaries_per_level
                    /\ UNCHANGED rpc
    /\ UNCHANGED <<max_summaries_per_level, batch_summaries, current_level, level>>
    /\ UNCHANGED <<runnerVars, adapterVars, batchVars, reportVars, chronVars,
                   sampleVars>>

\* The for loop is through: current_level = next_level; level += 1.
EndFor ==
    /\ rpc = "for"
    /\ group_start >= Len(current_level)
    /\ level < MaxLevel
    /\ current_level' = next_level
    /\ level' = level + 1
    /\ rpc' = "while"
    /\ UNCHANGED <<max_summaries_per_level, batch_summaries, next_level,
                   group_start, synth_log>>
    /\ UNCHANGED <<runnerVars, adapterVars, batchVars, reportVars, chronVars,
                   sampleVars>>

NextReduce == EnterReducer \/ WhileTest \/ ForStep \/ EndFor

\* The process keeps executing: a step that is possible is taken.
SpecReduce == InitReduce /\ [][NextReduce]_vars /\ WF_vars(NextReduce)

\* -------------------------------- hierarchical consolidation: properties
\* C14: with at least one leaf and a fan-in of at least 2, if no synthesize
\* call fails the loop ends, and the summaries left for the final synthesis
\* number between 1 and the fan-in.
C14_ReductionTerminates ==
    (max_summaries_per_level >= 2 /\ Len(batch_summaries) >= 1) =>
        ([](rpc # "raised") =>
            <>(/\ rpc = "final"
               /\ Len(current_level) >= 1
               /\ Len(current_level) <= max_summaries_per_level))

\* C14 witness: 7 leaves with fan-in 2 went through two levels (7 -> 4 -> 2)
\* and 2 summaries covering all 7 leaves are left.
C14_Witness ==
    /\ rpc = "final" /\ max_summaries_per_level = 2 /\ Len(batch_summaries) = 7
    /\ level = 3 /\ Len(current_level) = 2
    /\ Flatten([k \in 1..Len(current_level) |-> current_level[k].covers])
          = Interval(0, 7)

\* C15: with fan-in 1 and more than one leaf the call is rejected before any
\* synthesize call is made; the loop is not entered.
C15_FanInOneRejected ==
    (max_summaries_per_level = 1 /\ Len(batch_summaries) > 1) =>
        (synth_log = << >> /\ rpc \notin {"while", "for"})

\* C16: a failed synthesize call does not abort the reduction, and the
\* reduction still ends with at most fan-in summaries.
C16_SynthesisFailureTolerated ==
    /\ \A k \in 1..Len(synth_log) :
          synth_log[k].outcome = "raise" => rpc # "raised"
    /\ rpc = "final" => Len(current_level) <= max_summaries_per_level

\* ---------------------------- report (entity_extractor.generate_report)
\* Python evaluates  total_stories * (threshold_percent / 100)  in binary64
\* floating point: int / int is the correctly rounded quotient, int * float
\* the correctly rounded product, int() truncates toward zero.  The
\* significands do not fit the model checker's integers, so a non-negative
\* integer is kept as the list of its digits in base Base, least significant
\* first, without leading zeros (zero is the empty list).
Base == 32768
BaseBits == 15
MantBits == 53

RECURSIVE Pow2(_)
Pow2(n) == IF n = 0 THEN 1 ELSE 2 * Pow2(n - 1)
RECURSIVE BigFromInt(_)
BigFromInt(n) == IF n = 0 THEN << >> ELSE <<n % Base>> \o BigFromInt(n \div Base)
RECURSIVE BigToInt(_)
BigToInt(d) == IF d = << >> THEN 0 ELSE Head(d) + Base * BigToInt(Tail(d))
RECURSIVE BigNorm(_)
BigNorm(d) ==
    IF d = << >> THEN << >>
    ELSE IF d[Len(d)] = 0 THEN BigNorm(Front(d)) ELSE d
RECURSIVE MulCarry(_, _, _)
MulCarry(d, m, carry) ==
    IF d = << >> THEN BigFromInt(carry)
    ELSE LET t == Head(d) * m + carry
         IN <<t % Base>> \o MulCarry(Tail(d), m, t \div Base)
\* d * m for 0 <= m <= Base
BigMulSmall(d, m) == BigNorm(MulCarry(d, m, 0))
RECURSIVE DivRem(_, _)
DivRem(d, m) ==
    IF d = << >> THEN [q |-> << >>, r |-> 0]
    ELSE LET hi == DivRem(Tail(d), m)
             t == hi.r * Base + Head(d)
         IN [q |-> <<t \div m>> \o hi.q, r |-> t % m]
\* floor(d / m) and d mod m for 1 <= m <= Base
BigDivSmall(d, m) == LET x == DivRem(d, m) IN [q |-> BigNorm(x.q), r |-> x.r]
RECURSIVE BitLenSmall(_)
BitLenSmall(n) == IF n = 0 THEN 0 ELSE 1 + BitLenSmall(n \div 2)
BitLength(d) ==
    IF d = << >> THEN 0 ELSE BaseBits * (Len(d) - 1) + BitLenSmall(d[Len(d)])
BigIsOdd(d) == d # << >> /\ d[1] % 2 = 1
RECURSIVE BigAddOne(_)
BigAddOne(d) ==
    IF d = << >> THEN <<1>>
    ELSE IF Head(d) + 1 < Base THEN <<Head(d) + 1>> \o Tail(d)
         ELSE <<0>> \o BigAddOne(Tail(d))
\* floor(d / 2^n), and whether anything non-zero was shifted out
BigShiftRight(d, n) ==
    LET whole == n \div BaseBits
        kept == IF whole >= Len(d) THEN << >> ELSE SubSeq(d, whole + 1, Len(d))
        lost == IF whole >= Len(d) THEN d ELSE SubSeq(d, 1, whole)
        x == BigDivSmall(kept, Pow2(n % BaseBits))
    IN [q |-> x.q,
        inexact |-> x.r # 0 \/ \E k \in 1..Len(lost) : lost[k] # 0]
\* d * 2^n
BigShiftLeft(d, n) ==
    IF d = << >> THEN << >>
    ELSE [k \in 1..(n \div BaseBits) |-> 0] \o BigMulSmall(d, Pow2(n % BaseBits))

\* A float is sign * mant * 2^exp with mant of at most MantBits bits.
FloatZero == [sign |-> 1, mant |-> << >>, exp |-> 0]
\* The float nearest to sign * n * 2^e, ties to the even significand.
RoundToFloat(sign, n, e) ==
    LET over == BitLength(n) - MantBits
    IN IF over <= 0 THEN [sign |-> sign, mant |-> n, exp |-> e]
       ELSE LET above == BigShiftRight(n, over - 1)
                q == BigShiftRight(above.q, 1).q
                up == BigIsOdd(above.q) /\ (above.inexact \/ BigIsOdd(q))
                m == IF up THEN BigAddOne(q) ELSE q
            IN IF BitLength(m) > MantBits
               THEN [sign |-> sign, mant |-> BigShiftRight(m, 1).q,
                     exp |-> e + over + 1]
               ELSE [sign |-> sign, mant |-> m, exp |-> e + over]

\* a / b for integers a, b with b > 0 (true division of two ints)
TrueDiv(a, b) ==
    IF a = 0 THEN FloatZero
    ELSE LET mag == IF a < 0 THEN 0 - a ELSE a
             x == BigDivSmall(BigShiftLeft(BigFromInt(mag), 5 * BaseBits), b)
             \* a remainder only matters as "not exact": fold it into the
             \* lowest bit, which lies far below the rounding position
             q == IF x.r # 0 /\ ~BigIsOdd(x.q) THEN BigAddOne(x.q) ELSE x.q
         IN RoundToFloat(IF a < 0 THEN -1 ELSE 1, q, 0 - 5 * BaseBits)

\* n * x for an integer n >= 0 and a float x
IntTimesFloat(n, x) ==
    IF n = 0 \/ x.mant = << >> THEN FloatZero
    ELSE RoundToFloat(x.sign, BigMulSmall(x.mant, n), x.exp)

\* int(x): truncation toward zero
IntOfFloat(x) ==
    IF x.mant = << >> THEN 0
    ELSE x.sign * BigToInt(IF x.exp >= 0 THEN BigShiftLeft(x.mant, x.exp)
                           ELSE BigShiftRight(x.mant, 0 - x.exp).q)

Max(a, b) == IF a >= b THEN a ELSE b
MinProminence == 2
\* max(2, int(total_stories * (threshold_percent / 100)))
PromThreshold(total, percent) ==
    Max(MinProminence, IntOfFloat(IntTimesFloat(total, TrueDiv(percent, 100))))

\* A consolidated record as generate_report reads it: identity key and
\* story_count (titles / types only feed the text).
ReportRecord(key, c) ==
    [key |-> key, quals |-> {}, story_count |-> c, types |-> << >>]
\* one record per story_count n, n - 1, ..., 1, in consolidated order
Ladder(n) == [k \in 1..n |-> ReportRecord(<<"n", n + 1 - k>>, n + 1 - k)]
ReportAggregates ==
    {[individuals |-> Ladder(MaxTotal),
      events |-> << >>,
      places |-> <<ReportRecord(<<"p">>, 3), ReportRecord(<<"q">>, 3),
                   ReportRecord(<<"r">>, 1)>>],
     [individuals |-> << >>,
      events |-> <<ReportRecord(<<"e">>, 2), ReportRecord(<<"f">>, 2),
                   ReportRecord(<<"g">>, 1)>>,
      places |-> << >>]}

\* A buggy variant: the records below the threshold are taken.
ProminentOf_Below(l, th) == SelectSeq(l, LAMBDA r : r.story_count < th)
\* [p for p in consolidated[...] if p["story_count"] >= prominence_threshold]
ProminentOf(l, th) == SelectSeq(l, LAMBDA r : r.story_count >= th)

\* ---- the "other" lists of generate_report
\* the caps of the slices other_individuals[:50], events[:20], places[:30]
OtherIndividualsCap == 50
TypeEventsCap == 20
TypePlacesCap == 30
CapOf(class) ==
    CASE class = "individuals" -> OtherIndividualsCap
      [] class = "events" -> TypeEventsCap
      [] OTHER -> TypePlacesCap

\* [p for p in consolidated[...] if p["story_count"] < prominence_threshold]
OtherOf(l, th) == SelectSeq(l, LAMBDA r : r.story_count < th)
\* event["types"][0] if event["types"] else "other"
FirstType(r) == IF r.types # << >> THEN r.types[1] ELSE "other"
\* the type names of the model in the order sorted() gives them
TypeNames == <<"city", "crime", "fire", "other", "road">>

\* items[:cap]
Shown(l, cap) == SubSeq(l, 1, IF Len(l) <= cap THEN Len(l) ELSE cap)
\* A buggy variant: the note is also written for a bucket just at its cap.
MoreNote_AtCap(l, cap) ==
    [present |-> Len(l) >= cap, count |-> Len(l) - cap]
\* if len(items) > cap: "...and {len(items) - cap} more ..."
MoreNote(l, cap) ==
    IF Len(l) > cap THEN [present |-> TRUE, count |-> Len(l) - cap]
    ELSE [present |-> FALSE, count |-> 0]
Bucket(type, l, cap) ==
    [type |-> type, listed |-> Shown(l, cap), note |-> MoreNote(l, cap)]

\* for type, items in sorted(by_type.items()): the buckets in key order
BucketsByType(others, cap) ==
    LET present == SelectSeq(TypeNames,
                             LAMBDA t : \E k \in 1..Len(others) :
                                            FirstType(others[k]) = t)
    IN [k \in 1..Len(present) |->
           Bucket(present[k],
                  SelectSeq(others, LAMBDA r : FirstType(r) = present[k]), cap)]

\* the "Other ..." part of one class: individuals in one list, events and
\* places grouped by first type
RenderOthers(class, l, th) ==
    LET others == OtherOf(l, th)
    IN IF others = << >> THEN << >>
       ELSE IF class = "individuals"
       THEN <<Bucket("individuals", others, CapOf(class))>>
       ELSE BucketsByType(others, CapOf(class))

NothingRendered == [individuals |-> << >>, events |-> << >>, places |-> << >>]

InitReport ==
    /\ total_stories \in 0..MaxTotal
    /\ threshold_percent \in (0 - MaxNegPercent)..MaxPercent
    /\ rconsolidated \in ReportAggregates
    /\ prominence_threshold = 0
    /\ prominent = [individuals |-> << >>, events |-> << >>, places |-> << >>]
    /\ rendered = NothingRendered
    /\ gpc = "ready"
    /\ InitIdleRunner /\ InitIdleAdapter /\ InitIdleBatch
    /\ InitIdleReducer /\ InitIdleChron /\ InitIdleSample

\* generate_report(consolidated, total_stories, threshold_percent)
GenerateReport ==
    /\ gpc = "ready"
    /\ prominence_threshold' = PromThreshold(total_stories, threshold_percent)
    /\ prominent' =
          [class \in Classes |->
              ProminentOf(rconsolidated[class],
                          PromThreshold(total_stories, threshold_percent))]
    /\ rendered' =
          [class \in Classes |->
              RenderOthers(class, rconsolidated[class],
                           PromThreshold(total_stories, threshold_percent))]
    /\ gpc' = "reported"
    /\ UNCHANGED <<total_stories, threshold_percent, rconsolidated>>
    /\ UNCHANGED <<runnerVars, adapterVars, batchVars, reducerVars, chronVars,
                   sampleVars>>

NextReport == GenerateReport

SpecReport == InitReport /\ [][NextReport]_vars

\* ----------------------------------------------------- report: properties
\* floor(totalCount * thresholdPercent / 100), at least 2
StatedThreshold(total, percent) == Max(2, (total * percent) \div 100)

\* C17: the threshold of a report is max(2, floor(totalCount *
\* thresholdPercent / 100)), and a record is listed as prominent exactly
\* when its story_count is at least that number.
C17_ThresholdFormula ==
    gpc = "reported" =>
        /\ prominence_threshold = StatedThreshold(total_stories, threshold_percent)
        /\ \A class \in Classes : \A k \in 1..Len(rconsolidated[class]) :
              LET rec == rconsolidated[class][k]
              IN rec \in Range(prominent[class])
                    <=> rec.story_count
                           >= StatedThreshold(total_stories, threshold_percent)

\* C18: for the aggregate and totalCount of a report, the prominent set of
\* any percentage at or above the report's percentage is a subset of the
\* report's prominent set.
C18_ThresholdMonotone ==
    gpc = "reported" =>
        \A p2 \in threshold_percent..MaxPercent :
            LET th2 == PromThreshold(total_stories, p2)
            IN \A class \in Classes :
                  Range(ProminentOf(rconsolidated[class], th2))
                      \subseteq Range(prominent[class])

\* C18 witness: 50 stories at 10 percent list the records of 5 stories and
\* more, among them one of 20 stories that 50 percent would not list.
C18_Witness ==
    /\ gpc = "reported" /\ total_stories = 50 /\ threshold_percent = 10
    /\ prominence_threshold = 5
    /\ Len(prominent.individuals) = MaxTotal - 4
    /\ PromThreshold(total_stories, 50) = 25
    /\ \E k \in 1..Len(prominent.individuals) :
          prominent.individuals[k].story_count = 20

\* ------------------------ chronology (create_beatbook.py parse_date,
\* build_chronology, and the sort of main)
\* The "date" value of a story: absent or empty, a number, or a text of three
\* numeric fields joined by one separator, possibly with more text after.
NoDate == [kind |-> "empty", sep |-> "", fields |-> << >>, rest |-> FALSE]
NumberDate == [kind |-> "number", sep |-> "", fields |-> << >>, rest |-> FALSE]
DateText(sep, fields, rest) ==
    [kind |-> "text", sep |-> sep, fields |-> fields, rest |-> rest]
DateValues ==
    {NoDate, NumberDate,
     DateText("-", <<2023, 1, 15>>, FALSE),
     DateText("/", <<2023, 12, 31>>, FALSE),
     DateText("/", <<2, 29, 2024>>, FALSE),
     DateText("-", <<2023, 2, 30>>, FALSE),
     DateText("-", <<1, 15, 2023>>, FALSE),
     DateText("-", <<2023, 1, 15>>, TRUE)}

\* the formats of parse_date, in its order: separator and field positions
\* of year, month, day
DateFormats ==
    <<[sep |-> "-", y |-> 1, m |-> 2, d |-> 3],
      [sep |-> "/", y |-> 1, m |-> 2, d |-> 3],
      [sep |-> "/", y |-> 3, m |-> 1, d |-> 2]>>

IsLeap(y) == (y % 4 = 0 /\ y % 100 # 0) \/ y % 400 = 0
DaysIn(y, m) ==
    IF m = 2 THEN (IF IsLeap(y) THEN 29 ELSE 28)
    ELSE IF m \in {4, 6, 9, 11} THEN 30 ELSE 31

\* datetime.strptime(date_str, fmt): ValueError unless the whole text is
\* year (four digits), month and day of a real date in the format's layout.
Strptime(date, fmt) ==
    LET y == date.fields[fmt.y]
        m == date.fields[fmt.m]
        d == date.fields[fmt.d]
    IN /\ date.sep = fmt.sep
       /\ ~date.rest
       /\ y >= 1000 /\ y <= 9999
       /\ m >= 1 /\ m <= 12
       /\ d >= 1 /\ d <= DaysIn(y, m)

NoneDate == [ok |-> FALSE, year |-> 0, month |-> 0, day |-> 0]
\* parse_date on a text: the first format that fits
parse_date(date) ==
    IF date.kind = "empty" THEN NoneDate
    ELSE LET fits == {k \in 1..Len(DateFormats) : Strptime(date, DateFormats[k])}
         IN IF fits = {} THEN NoneDate
            ELSE LET f == DateFormats[CHOOSE k \in fits : \A j \in fits : k <= j]
                 IN [ok |-> TRUE, year |-> date.fields[f.y],
                     month |-> date.fields[f.m], day |-> date.fields[f.d]]
\* strptime raises TypeError on an argument that is not a str
ParseRaises(date) == date.kind = "number"

\* sort key of main: parse_date(...) or datetime.min.date()
SortKey(story) ==
    LET d == parse_date(story.date)
    IN IF d.ok THEN d.year * 10000 + d.month * 100 + d.day ELSE 10101
RECURSIVE InsertAsc(_, _)
InsertAsc(sorted, x) ==
    IF sorted = << >> THEN <<x>>
    ELSE IF SortKey(Head(sorted)) <= SortKey(x)
         THEN <<Head(sorted)>> \o InsertAsc(Tail(sorted), x)
         ELSE <<x>> \o sorted
RECURSIVE SortAsc(_)
SortAsc(l) == IF l = << >> THEN << >> ELSE InsertAsc(SortAsc(Front(l)), l[Len(l)])

\* defaultdict(list)[key].append(x)
AppendTo(dict, key, x) ==
    [k \in DOMAIN dict \cup {key} |->
        IF k = key
        THEN (IF key \in DOMAIN dict THEN Append(dict[key], x) ELSE <<x>>)
        ELSE dict[k]]

InitChron ==
    /\ \E n \in 0..MaxChron :
          cstories \in {[k \in 1..n |-> [id |-> k, date |-> dates[k]]] :
                           dates \in [1..n -> DateValues]}
    /\ cidx = 0
    /\ by_month = << >>
    /\ by_year = << >>
    /\ cpc = "sort"
    /\ InitIdleRunner /\ InitIdleAdapter /\ InitIdleBatch
    /\ InitIdleReducer /\ InitIdleReport /\ InitIdleSample

\* main: stories.sort(key=...), then the call of build_chronology
SortStories ==
    /\ cpc = "sort"
    /\ IF \E k \in 1..Len(cstories) : ParseRaises(cstories[k].date)
       THEN cpc' = "raised" /\ UNCHANGED cstories
       ELSE cpc' = "loop" /\ cstories' = SortAsc(cstories)
    /\ UNCHANGED <<cidx, by_month, by_year>>
    /\ UNCHANGED <<runnerVars, adapterVars, batchVars, reducerVars, reportVars,
                   sampleVars>>

\* One pass of the loop of build_chronology.
ChronStep ==
    /\ cpc = "loop"
    /\ cidx < Len(cstories)
    /\ LET story == cstories[cidx + 1]
           date_obj == parse_date(story.date)
       IN IF ~date_obj.ok
          THEN UNCHANGED <<by_month, by_year>>
          ELSE /\ by_month' = AppendTo(by_month, <<date_obj.year, date_obj.month>>,
                                       story.id)
               /\ by_year' = AppendTo(by_year, date_obj.year, story.id)
    /\ cidx' = cidx + 1
    /\ UNCHANGED <<cstories, cpc>>
    /\ UNCHANGED <<runnerVars, adapterVars, batchVars, reducerVars, reportVars,
                   sampleVars>>

\* The loop is through; the sections are rendered from the buckets.
ChronBuilt ==
    /\ cpc = "loop"
    /\ cidx >= Len(cstories)
    /\ cpc' = "built"
    /\ UNCHANGED <<cstories, cidx, by_month, by_year>>
    /\ UNCHANGED <<runnerVars, adapterVars, batchVars, reducerVars, reportVars,
                   sampleVars>>

NextChron == SortStories \/ ChronStep \/ ChronBuilt

SpecChron == InitChron /\ [][NextChron]_vars

\* ------------------------------------------------- chronology: properties
BucketsWith(dict, id) == {k \in DOMAIN dict : id \in Range(dict[k])}
RECURSIVE SizeSum(_, _)
SizeSum(dict, keys) ==
    IF keys = {} THEN 0
    ELSE LET k == CHOOSE x \in keys : TRUE
         IN Len(dict[k]) + SizeSum(dict, keys \ {k})

\* The dated half of C19 on its own: a story with a parseable date is in
\* exactly one (year, month) bucket and one year bucket, those of its date,
\* and in no bucket twice.
C19_DatedKept ==
    cpc = "built" =>
        \A k \in 1..Len(cstories) :
            LET d == parse_date(cstories[k].date)
                id == cstories[k].id
            IN d.ok =>
                 /\ BucketsWith(by_month, id) = {<<d.year, d.month>>}
                 /\ BucketsWith(by_year, id) = {d.year}
                 /\ Cardinality({j \in 1..Len(by_month[<<d.year, d.month>>]) :
                                    by_month[<<d.year, d.month>>][j] = id}) = 1

\* C19: every story with a parseable date is in exactly one (year, month)
\* bucket and one year bucket, every story whose date is missing or
\* unparseable is in a bucket of its own kind, and the bucket sizes add up
\* to the number of stories.
C19_NoDocumentLost ==
    /\ C19_DatedKept
    /\ cpc = "built" =>
          /\ \A k \in 1..Len(cstories) :
                /\ Cardinality(BucketsWith(by_month, cstories[k].id)) = 1
                /\ Cardinality(BucketsWith(by_year, cstories[k].id)) = 1
          /\ SizeSum(by_month, DOMAIN by_month) = Len(cstories)
          /\ SizeSum(by_year, DOMAIN by_year) = Len(cstories)

\* ----------- sampling and limit (add_entities_clay.py 119-160,
\* add_entities_clay_v2.py 219-258)
\* The module-level generator of random.  Its state is RngBits bits here and
\* a congruential step of full period stands for the Mersenne Twister; what
\* is kept is what the code relies on: a process starts with a state taken
\* from the operating system, seed(a) replaces the whole state by a function
\* of a, and every draw is a function of the state.
RngBits == 3
SeedValue == 42
RngStates == 0..(Pow2(RngBits) - 1)
RngStep(x) == (5 * x + 3) % Pow2(RngBits)
\* A buggy variant: the call leaves the generator as it was.
Seeded_Ignored(x, a) == x
\* random.seed(a)
Seeded(x, a) == a % Pow2(RngBits)
\* getrandbits(k), k <= RngBits: [val, state]
GetRandBits(k, x) ==
    LET y == RngStep(x) IN [val |-> y \div Pow2(RngBits - k), state |-> y]
\* _randbelow(n), n > 0: redraw until the value is below n
RECURSIVE RandBelow(_, _)
RandBelow(n, x) ==
    LET r == GetRandBits(BitLenSmall(n), x)
    IN IF r.val < n THEN r ELSE RandBelow(n, r.state)

\* random.sample(population, k), pool branch (taken for every population of
\* up to 21 items): result[i] = pool[j]; pool[j] = pool[n - i - 1]
RECURSIVE SampleLoop(_, _, _, _, _)
SampleLoop(pool, taken, k, x, result) ==
    IF taken = k THEN [list |-> result, state |-> x]
    ELSE LET n == Len(pool)
             r == RandBelow(n - taken, x)
         IN SampleLoop([pool EXCEPT ![r.val + 1] = pool[n - taken]],
                       taken + 1, k, r.state, Append(result, pool[r.val + 1]))
RandomSample(population, k, x) == SampleLoop(population, 0, k, x, << >>)

\* A story of the corpus: its position in the input file and whether the
\* title / section filter drops it.
StoryKinds == {"news", "calendar"}
FilterStories(all) == SelectSeq(all, LAMBDA st : st.kind # "calendar")
Min(a, b) == IF a <= b THEN a ELSE b

\* Lines 148-160 (v1) and 246-258 (v2) on the filtered list, from generator
\* state x: [raised, list, sampled, state]
SelectStories(var, filtered, size, lim, x) ==
    LET n == Len(filtered)
        eff == Min(size, n)
        samples == IF var = "v1" THEN eff < n ELSE eff < n /\ lim = 0
    IN IF samples /\ eff < 0
       THEN [raised |-> TRUE, list |-> << >>, sampled |-> TRUE,
             state |-> Seeded(x, SeedValue)]
       ELSE LET drawn == IF samples
                         THEN RandomSample(filtered, eff, Seeded(x, SeedValue))
                         ELSE [list |-> filtered, state |-> x]
                cut == IF lim # 0 /\ lim < Len(drawn.list)
                       THEN SubSeq(drawn.list, 1, lim) ELSE drawn.list
            IN [raised |-> FALSE, list |-> cut, sampled |-> samples,
                state |-> drawn.state]

\* sample_size: args.sample_size of v1 (any int); for v2 the literal 300,
\* brought down to the corpus sizes of the model.
InitSample ==
    /\ variant \in {"v1", "v2"}
    /\ \E n \in 0..MaxCorpus :
          all_stories \in {[k \in 1..n |-> [id |-> k, kind |-> kinds[k]]] :
                              kinds \in [1..n -> StoryKinds]}
    /\ sample_size \in (-1)..MaxSample
    /\ variant = "v2" => sample_size >= 1
    /\ limit \in 0..MaxLimit
    /\ rng = 0
    /\ worklists = << >>
    /\ spc = "start"
    /\ skip_summary = TRUE /\ stories = << >> /\ file = NoFile
    /\ pc = "idle" /\ enhanced_stories = << >> /\ starting_count = 0 /\ i = 1
    /\ errors = << >> /\ runs = 0 /\ calls = << >> /\ visited = << >>
    /\ lastExit = "none" /\ fileAtStart = NoFile /\ saved = {} /\ handled = {}
    /\ oracle = Idle
    /\ InitIdleAdapter /\ InitIdleBatch
    /\ InitIdleReducer /\ InitIdleReport /\ InitIdleChron

\* One process from its start to "Will process ... stories": load, filter,
\* sample, limit.  The generator starts from a state of the system's choice.
SelectRun ==
    /\ spc \in {"start", "selected", "raised"}
    /\ Len(worklists) < MaxSelections
    /\ \E entropy \in RngStates :
          LET sel == SelectStories(variant, FilterStories(all_stories),
                                   sample_size, limit, entropy)
          IN /\ rng' = sel.state
             /\ spc' = IF sel.raised THEN "raised" ELSE "selected"
             /\ worklists' = Append(worklists, [raised |-> sel.raised,
                                                sampled |-> sel.sampled,
                                                stories |-> sel.list])
    /\ UNCHANGED <<all_stories, sample_size, limit>>
    /\ UNCHANGED <<runnerVars, adapterVars, batchVars, reducerVars, reportVars,
                   chronVars>>

NextSample == SelectRun

SpecSample == InitSample /\ [][NextSample]_vars

\* --------------------------------------------------- sampling: properties
\* C20: any two runs on the same corpus with the same sample size select the
\* same work list, items and order.
C20_SamplingDeterminism ==
    \A a, b \in 1..Len(worklists) : worklists[a] = worklists[b]

\* C20 witness: two runs each drew 2 of 4 stories and selected the same list.
C20_Witness ==
    /\ Len(worklists) = 2
    /\ Len(FilterStories(all_stories)) = 4 /\ sample_size = 2 /\ limit = 0
    /\ worklists[1].sampled /\ worklists[2].sampled
    /\ Len(worklists[1].stories) = 2
    /\ worklists[1].stories = worklists[2].stories

\* ----------------------------------- runner: summary, errors, persistence
\* What the final summary of main() prints about the run (v1 lines 237-262,
\* v2 lines 389-437); the counts of the corpus before the work list (loaded,
\* filtered out, sampled) are printed as well and are not part of this model.
RunSummary ==
    [previously_processed |-> starting_count,
     processed_this_run |-> Len(enhanced_stories) - starting_count,
     total_in_output |-> Len(enhanced_stories),
     successful |-> Cardinality({k \in 1..Len(enhanced_stories) :
                                    /\ enhanced_stories[k].error = "none"
                                    /\ ~enhanced_stories[k].summary_error}),
     errors |-> errors]
SummaryReports(name, value) ==
    name \in DOMAIN RunSummary /\ RunSummary[name] = value
FreshRunDone == pc = "done" /\ runs = 1

\* The record half of C21 on its own: a fresh run that completes leaves one
\* record per item with content, in order, and none for the others.
C21_FreshRunRecords ==
    FreshRunDone =>
        /\ Srcs(enhanced_stories) = SelectSeq(Interval(0, Len(stories)), HasContent)
        /\ file.st = "ok" => file.data = enhanced_stories
        /\ file.st = "absent" => enhanced_stories = << >>

\* C21: a fresh run that completes leaves exactly one record per item with
\* content and none for items without, and its summary reports how many
\* items were skipped for having no content.
C21_FreshRunSkipsCounted ==
    /\ C21_FreshRunRecords
    /\ (FreshRunDone /\ \E k \in 1..Len(stories) : ~HasContent(k)) =>
          SummaryReports("skipped_no_content",
                         Cardinality({k \in 1..Len(stories) : ~HasContent(k)}))

\* the error marker field of a record (entity_extraction_error)
HasMarker(rec) == rec.error # "none" \/ rec.summary_error
\* the records the current run appended
ThisRun == {k \in 1..Len(enhanced_stories) : k > starting_count}

\* C22: every failure of an item the run has been through (extraction
\* failed, summarization failed, no content) shows as a marked record of
\* that item and as an entry of the run's error list.
C22_FailuresRecordedTwice ==
    pc \in {"loop", "done"} =>
        /\ \A k \in ThisRun :
              HasMarker(enhanced_stories[k]) =>
                 \E e \in 1..Len(errors) : errors[e] = enhanced_stories[k].src
        /\ \A v \in 1..Len(visited) :
              (visited[v] < i /\ ~HasContent(visited[v])) =>
                 /\ \E k \in ThisRun :
                       /\ enhanced_stories[k].src = visited[v]
                       /\ HasMarker(enhanced_stories[k])
                 /\ \E e \in 1..Len(errors) : errors[e] = visited[v]

\* C25: every rewrite of the output file replaces a collection by one that
\* has it as a prefix: what a run is about to write extends what the file
\* holds, the dump writes exactly that, and a file a run found is a prefix
\* of everything that run persists.
C25_AppendOnly ==
    [][ /\ (file.st = "ok" /\ file'.st = "partial") =>
              IsPrefix(file.data, enhanced_stories)
        /\ (file.st = "partial" /\ file'.st = "ok") =>
              /\ file'.data = enhanced_stories
              /\ IsPrefix(fileAtStart.data, file'.data)
        /\ (file.st = "ok" /\ file'.st = "ok") => file'.data = file.data
        /\ file.st # "absent" => file'.st # "absent" ]_vars

\* C25 witness: a second run found one persisted record and has persisted
\* two, the first of them the record it found.
C25_Witness ==
    /\ runs = 2 /\ pc = "loop"
    /\ fileAtStart.st = "ok" /\ Len(fileAtStart.data) = 1
    /\ file.st = "ok" /\ Len(file.data) = 2
    /\ file.data[1] = fileAtStart.data[1]

\* C29 (runner): an oracle answer that is JSON but not an object gives an
\* error-flagged record and the run goes on; the run does not abort on it.
C29_NonObjectTolerated ==
    oracle = [kind |-> "exit", returncode |-> 0, stdout |-> <<"ARR">>] =>
        /\ pc # "raised"
        /\ pc \in {"save", "dump"} =>
              HasMarker(enhanced_stories[Len(enhanced_stories)])

\* C30: whenever the process can be terminated the output file is absent
\* (nothing persisted yet) or holds a complete collection: the in-memory
\* list, or the list as it stood before the item in hand was appended.
C30_FileAlwaysLoadable ==
    /\ file.st # "partial"
    /\ (Running /\ file.st = "ok") =>
          \/ file.data = enhanced_stories
          \/ file.data = Front(enhanced_stories)

\* ------------------------------------------------ batch stage: termination
\* The batch stage always takes its next step when it has one: the loop and
\* the consolidation run in one thread with nothing to wait for but the oracle.
SpecBatchFair == InitBatch /\ [][NextBatch]_vars /\ WF_vars(NextBatch)

BatchRunEnded == bpc \in {"consolidated", "raised_in_batch", "raised_in_consolidate"}

\* C24: every oracle call is bounded by a timeout, so a run of the batch
\* stage ends whatever the oracle does, an oracle that never answers included.
C24_BatchRunEnds == <>BatchRunEnded

\* ------------------------------------ batch stage: the parsing half alone
MaxPieces == 3
PieceTokens == {"OBJ1", "OBJ2", "ARR", "FENCE", "LB", "RB", "PROSE"}

InitParse ==
    /\ ptext \in SeqsUpTo(PieceTokens, MaxPieces)
    /\ presult = EmptyRecord
    /\ ppc = "start"
    /\ InitIdleRunner /\ InitIdleAdapter /\ InitIdleBatchLoop
    /\ InitIdleReducer /\ InitIdleReport /\ InitIdleChron /\ InitIdleSample

\* response.text() handed to the three attempts of extract_entities_from_batch
ParseText ==
    /\ ppc = "start"
    /\ presult' = ParseResponse(ptext)
    /\ ppc' = "parsed"
    /\ UNCHANGED <<ptext, bstories, batch_size, bi, batches, replies,
                   batch_results, consolidated, bpc>>
    /\ UNCHANGED <<runnerVars, adapterVars, stageVars>>

NextParse == ParseText
SpecParse == InitParse /\ [][NextParse]_vars

\* the objects a text carries: its balanced substrings that parse as a record
ObjectsIn(t) == {Payload(t[k]) : k \in {j \in 1..Len(t) : t[j] \in ObjTokens}}

\* The order of the attempts, which holds: a text that parses whole gives its
\* value; failing that, a fenced stretch that parses gives its value; failing
\* that, the stretch from the first opening to the last closing brace gives
\* its value if it parses; and the empty record is returned otherwise.
C23_AttemptsInOrder ==
    ppc = "parsed" =>
        LET whole == LoadsPieces(ptext)
            fm == FencedMatch(ptext)
            bm == BraceMatch(ptext)
        IN /\ whole.ok => presult = whole.val
           /\ (~whole.ok /\ fm.found /\ LoadsPieces(fm.group).ok) =>
                 presult = LoadsPieces(fm.group).val
           /\ (presult = EmptyRecord) =>
                 /\ ~whole.ok
                 /\ ~(fm.found /\ LoadsPieces(fm.group).ok)
                 /\ ~(bm.found /\ LoadsPieces(bm.group).ok)

\* C23: whenever the text contains a balanced substring that parses as a
\* record, the parser returns a record carried by the text; the empty record
\* of failure is returned only when the text carries none.
C23_BalancedObjectFound ==
    (ppc = "parsed" /\ ObjectsIn(ptext) # {}) => presult \in ObjectsIn(ptext)

\* --------------------------- hierarchical consolidation: grouping (C26)
\* the synthesize calls of the level in hand that returned, in call order
CallsOfLevel ==
    LET OfLevel(e) == e.level = level /\ e.outcome = "text"
    IN SelectSeq(synth_log, OfLevel)
LevelThrough == rpc = "for" /\ group_start >= Len(current_level)

\* C26: within a level the groups handed to synthesize are contiguous,
\* non-empty, at most fan-in long and cover the level so far exactly once,
\* in order; the next level holds one summary per group in group order;
\* a level of n summaries is reduced to ceil(n / fan-in).
C26_GroupsPartitionLevel ==
    rpc = "for" =>
        LET cs == CallsOfLevel
            done == IF group_start <= Len(current_level)
                    THEN group_start ELSE Len(current_level)
        IN /\ Flatten([k \in 1..Len(cs) |-> cs[k].group])
                 = SubSeq(current_level, 1, done)
           /\ \A k \in 1..Len(cs) :
                 /\ Len(cs[k].group) >= 1
                 /\ Len(cs[k].group) <= max_summaries_per_level
           /\ Len(next_level) = Len(cs)
           /\ \A k \in 1..Len(cs) :
                 next_level[k] = synthesize_intermediate(cs[k].group, level)
           /\ LevelThrough =>
                 Len(next_level) = Ceil(Len(current_level), max_summaries_per_level)

\* C26 witness: a level of 7 summaries with fan-in 3 is through: three calls
\* on groups of 3, 3 and 1, three summaries in the next level.
C26_Witness ==
    /\ LevelThrough
    /\ Len(current_level) = 7 /\ max_summaries_per_level = 3
    /\ Len(next_level) = 3
    /\ next_level[1].covers = <<1, 2, 3>>
    /\ next_level[2].covers = <<4, 5, 6>>
    /\ next_level[3].covers = <<7>>

\* ------------------------------------------------- sampling: debug limit
\* the work list the same arguments give when no limit is set
UnlimitedLists ==
    {sel.list : sel \in {s \in {SelectStories(variant, FilterStories(all_stories),
                                              sample_size, 0, x) : x \in RngStates} :
                            ~s.raised}}
LimitedPrefix(list, full) == list = SubSeq(full, 1, Min(limit, Len(full)))

\* The v1 script alone, which holds: it samples whether or not a limit is
\* set and cuts the sampled list.
C28_LimitIsPrefixV1 ==
    variant = "v1" =>
        \A a \in 1..Len(worklists) :
            (limit # 0 /\ ~worklists[a].raised) =>
                \A full \in UnlimitedLists : LimitedPrefix(worklists[a].stories, full)

\* C28: with a debug limit L the work list is the first L items of the work
\* list the same run builds without the limit.
C28_LimitIsPrefix ==
    \A a \in 1..Len(worklists) :
        (limit # 0 /\ ~worklists[a].raised) =>
            \A full \in UnlimitedLists : LimitedPrefix(worklists[a].stories, full)

\* ------------------------------------------ report: display caps (C27)
\* Aggregates whose "other" lists are around the caps: ni, ne and np records
\* of one story after the records of three and two stories, each list in
\* descending story_count as consolidate_entities leaves it.
CapMargin == 2
MaxCapTotal == 3
CapRecord(key, c, types) ==
    [key |-> key, quals |-> Range(types), story_count |-> c, types |-> types]
CapAggregate(ni, ne, np) ==
    [individuals |->
        <<CapRecord(<<"top">>, 3, << >>), CapRecord(<<"mid">>, 2, << >>)>>
        \o [k \in 1..ni |-> CapRecord(<<"i", k>>, 1, << >>)],
     events |->
        <<CapRecord(<<"big">>, 3, <<"fire">>),
          CapRecord(<<"m">>, 2, <<"fire", "crime">>)>>
        \o [k \in 1..ne |-> CapRecord(<<"e", k>>, 1, <<"fire">>)]
        \o <<CapRecord(<<"u">>, 1, << >>), CapRecord(<<"c">>, 1, <<"crime">>)>>,
     places |->
        <<CapRecord(<<"P">>, 3, <<"city">>), CapRecord(<<"Q">>, 2, <<"road", "city">>)>>
        \o [k \in 1..np |-> CapRecord(<<"p", k>>, 1, <<"road">>)]
        \o <<CapRecord(<<"v">>, 1, << >>)>>]
Around(cap) == (cap - CapMargin)..(cap + CapMargin)

InitReportCaps ==
    /\ total_stories \in 0..MaxCapTotal
    /\ threshold_percent \in {5, 100}
    /\ \E ni \in Around(OtherIndividualsCap), ne \in Around(TypeEventsCap),
          np \in Around(TypePlacesCap) :
          rconsolidated = CapAggregate(ni, ne, np)
    /\ prominence_threshold = 0
    /\ prominent = [individuals |-> << >>, events |-> << >>, places |-> << >>]
    /\ rendered = NothingRendered
    /\ gpc = "ready"
    /\ InitIdleRunner /\ InitIdleAdapter /\ InitIdleBatch
    /\ InitIdleReducer /\ InitIdleChron /\ InitIdleSample

SpecReportCaps == InitReportCaps /\ [][NextReport]_vars

\* the records of a class that belong to display bucket t, in aggregate order
BucketMembers(class, t) ==
    SelectSeq(rconsolidated[class],
              LAMBDA r : /\ r.story_count < prominence_threshold
                         /\ IF class = "individuals" THEN t = "individuals"
                            ELSE t = (IF r.types = << >> THEN "other"
                                      ELSE r.types[1]))
BucketNames == Range(TypeNames) \cup {"individuals"}
BucketsNamed(class, t) ==
    {k \in 1..Len(rendered[class]) : rendered[class][k].type = t}

BucketsAsStated ==
    gpc = "reported" =>
        \A class \in Classes : \A t \in BucketNames :
            LET members == BucketMembers(class, t)
                s == Len(members)
                c == CASE class = "individuals" -> 50
                       [] class = "events" -> 20
                       [] OTHER -> 30
                shown == IF s <= c THEN s ELSE c
                bs == BucketsNamed(class, t)
            IN /\ s = 0 => bs = {}
               /\ s > 0 =>
                    /\ Cardinality(bs) = 1
                    /\ \A k \in bs :
                          /\ rendered[class][k].listed = SubSeq(members, 1, shown)
                          /\ rendered[class][k].note.present <=> s > c
                          /\ rendered[class][k].note.present =>
                                rendered[class][k].note.count = s - c

\* C27: writing the report changes nothing in the consolidated aggregate,
\* and every display bucket of size s and cap c lists its first min(s, c)
\* records and carries a remainder note, stating s - c, exactly when s > c.
C27_CapsAndRemainder ==
    /\ []BucketsAsStated
    /\ [][rconsolidated' = rconsolidated]_vars

\* C27 witness: a report with 51 other individuals (50 listed, note of 1), a
\* bucket of 20 fire events without a note, and 31 road places (30 listed,
\* note of 1) next to a bucket of one untyped place.
C27_Witness ==
    /\ gpc = "reported" /\ prominence_threshold = 2
    /\ Len(rconsolidated.individuals) = 53
    /\ Len(rendered.individuals) = 1
    /\ Len(rendered.individuals[1].listed) = 50
    /\ rendered.individuals[1].note = [present |-> TRUE, count |-> 1]
    /\ \E k \in 1..Len(rendered.events) :
          /\ rendered.events[k].type = "fire"
          /\ Len(rendered.events[k].listed) = 20
          /\ ~rendered.events[k].note.present
    /\ Len(rendered.places) = 2
    /\ rendered.places[1].type = "other" /\ Len(rendered.places[1].listed) = 1
    /\ rendered.places[2].type = "road" /\ Len(rendered.places[2].listed) = 30
    /\ rendered.places[2].note = [present |-> TRUE, count |-> 1]

====
